---------------------------- MODULE Spec2Model ----------------------------
(***************************************************************************)
(* A model of app.py: the YouTube transcription pipeline.                  *)
(*                                                                         *)
(*   extract_video_id  URL resolver: five regular expressions tried in     *)
(*                     order, then a urlparse/parse_qs fallback            *)
(*   download_audio    makedirs + the download service (a black box)       *)
(*   transcribe_audio  the recognition service behind a try/except         *)
(*   main              the orchestrator run by each "Transcribir" press    *)
(*                                                                         *)
(* Strings are sequences of one-character strings, so that the regular     *)
(* expressions and the URL parser work on characters as the code does.     *)
(***************************************************************************)
EXTENDS Naturals, Sequences, FiniteSets

VARIABLES
    url,        \* resolver: the string handed to extract_video_id
    origin,     \* resolver: how the input was built (shape, intended id)
    resolved,   \* resolver: what extract_video_id produced, or Pending
    treq,       \* transcriber: the arguments and service outcomes of a call
    tres,       \* transcriber: what transcribe_audio produced, or Pending
    sess,       \* orchestrator: per session, the position and data of its run
    dirs,       \* file system: the directories that exist
    files       \* file system: path -> the run that wrote the file there

vars == <<url, origin, resolved, treq, tres, sess, dirs, files>>

-----------------------------------------------------------------------------
(* Bounds of the model. *)

\* longest identifier of a shaped URL, in characters
MaxIdLen == 2
\* longest tail of a free-form URL, in atoms
MaxTail == 3
\* runs a session may start in the sequential specification
MaxRuns == 2

-----------------------------------------------------------------------------
(* Characters and string helpers. *)

Min(S) == CHOOSE x \in S : \A y \in S : x <= y

HasAt(s, pos, lit) ==
    /\ pos + Len(lit) - 1 <= Len(s)
    /\ \A i \in 1..Len(lit) : s[pos + i - 1] = lit[i]

StartsWith(s, lit) == HasAt(s, 1, lit)

\* str.find(c, start): the first index >= start holding c, 0 when there is none
Find(s, c, start) ==
    LET hits == {i \in start..Len(s) : s[i] = c}
    IN  IF hits = {} THEN 0 ELSE Min(hits)

Contains(s, c) == \E i \in 1..Len(s) : s[i] = c

\* needle in haystack, for strings
IsSubstring(needle, hay) ==
    \E p \in 1..(Len(hay) + 1) : HasAt(hay, p, needle)

From(s, pos) == IF pos > Len(s) THEN <<>> ELSE SubSeq(s, pos, Len(s))

Upto(s, pos) == IF pos < 1 THEN <<>> ELSE SubSeq(s, 1, pos)

RECURSIVE Flatten(_)
Flatten(ss) == IF ss = <<>> THEN <<>> ELSE Head(ss) \o Flatten(Tail(ss))

\* str.split(sep) for a one-character separator
RECURSIVE Split(_, _)
Split(s, sep) ==
    LET i == Find(s, sep, 1)
    IN  IF i = 0 THEN <<s>>
        ELSE <<Upto(s, i - 1)>> \o Split(From(s, i + 1), sep)

UpperCase == <<"A","B","C","D","E","F","G","H","I","J","K","L","M",
               "N","O","P","Q","R","S","T","U","V","W","X","Y","Z">>
LowerCase == <<"a","b","c","d","e","f","g","h","i","j","k","l","m",
               "n","o","p","q","r","s","t","u","v","w","x","y","z">>
Digits == {"0","1","2","3","4","5","6","7","8","9"}

IsAlpha(c) == \E i \in 1..26 : c = UpperCase[i] \/ c = LowerCase[i]

LowerChar(c) ==
    IF \E i \in 1..26 : c = UpperCase[i]
    THEN LowerCase[CHOOSE i \in 1..26 : c = UpperCase[i]]
    ELSE c

\* str.lower()
Lower(s) == [i \in 1..Len(s) |-> LowerChar(s[i])]

-----------------------------------------------------------------------------
(* Values: Python's None, a returned string, a raised exception. *)

None == [kind |-> "None"]
Str(s) == [kind |-> "str", val |-> s]
Raised(e) == [kind |-> "raise", exc |-> e]
Pending == [kind |-> "pending"]

\* Python truthiness of an optional string: None and '' are falsy
Truthy(v) == v.kind = "str" /\ v.val # <<>>

-----------------------------------------------------------------------------
(* The regular expressions of extract_video_id.  Each pattern is           *)
(*   (?:https?://)?(?:www\.)?  <literal>  [.*?&v=]  (?P<id>[^?&/]+)        *)
(* and re.match anchors it at the start of the string and accepts any      *)
(* remainder after the group.                                              *)

LitHttp == <<"h","t","t","p">>
LitColonSlashSlash == <<":","/","/">>
LitWww == <<"w","w","w",".">>
LitYoutuBe == <<"y","o","u","t","u",".","b","e">>
LitYoutubeCom == <<"y","o","u","t","u","b","e",".","c","o","m">>
LitEmbed == <<"/","e","m","b","e","d","/">>
LitV == <<"/","v","/">>
LitWatch == <<"/","w","a","t","c","h">>
LitWatchQ == LitWatch \o <<"?">>
LitVEq == <<"v","=">>
LitAmpVEq == <<"&","v","=">>

\* the characters the class [^?&/] leaves out
ClassExcluded == {"?", "&", "/"}

\* the five patterns, in the order of the list
\* (faulty variant: the last two patterns in the other order)
mutPatternsReordered ==
    << [lit |-> LitYoutuBe \o <<"/">>, lazy |-> FALSE],
       [lit |-> LitYoutubeCom \o LitEmbed, lazy |-> FALSE],
       [lit |-> LitYoutubeCom \o LitV, lazy |-> FALSE],
       [lit |-> LitYoutubeCom \o LitWatchQ, lazy |-> TRUE],
       [lit |-> LitYoutubeCom \o LitWatchQ \o LitVEq, lazy |-> FALSE] >>
regex_patterns ==
    << [lit |-> LitYoutuBe \o <<"/">>, lazy |-> FALSE],
       [lit |-> LitYoutubeCom \o LitEmbed, lazy |-> FALSE],
       [lit |-> LitYoutubeCom \o LitV, lazy |-> FALSE],
       [lit |-> LitYoutubeCom \o LitWatchQ \o LitVEq, lazy |-> FALSE],
       [lit |-> LitYoutubeCom \o LitWatchQ, lazy |-> TRUE] >>

\* (?:https?://)? : the positions after the group, the greedy choice first
AfterScheme(s) ==
    LET withS == LitHttp \o <<"s">> \o LitColonSlashSlash
        noS   == LitHttp \o LitColonSlashSlash
    IN  (IF HasAt(s, 1, withS) THEN <<Len(withS) + 1>> ELSE <<>>)
        \o (IF HasAt(s, 1, noS) THEN <<Len(noS) + 1>> ELSE <<>>)
        \o <<1>>

\* (?:www\.)? from position p
AfterWww(s, p) ==
    (IF HasAt(s, p, LitWww) THEN <<p + Len(LitWww)>> ELSE <<>>) \o <<p>>

\* the positions after both optional groups, in backtracking order
AfterOptionals(s) ==
    Flatten([i \in 1..Len(AfterScheme(s)) |-> AfterWww(s, AfterScheme(s)[i])])

\* [^?&/]+ at position p, greedy: the length of the longest run (0: no match)
IdRun(s, p) ==
    LET stops == {i \in p..Len(s) : s[i] \in ClassExcluded}
    IN  IF p > Len(s) THEN 0
        ELSE IF stops = {} THEN Len(s) - p + 1
        ELSE Min(stops) - p

NoMatch == [kind |-> "nomatch"]

GroupAt(s, p) ==
    IF IdRun(s, p) >= 1 THEN Str(SubSeq(s, p, p + IdRun(s, p) - 1)) ELSE NoMatch

\* .*?&v=(?P<id>...) at position q: '.' is any character but a newline, and the
\* lazy star takes the shortest stretch after which the rest matches
LazyThenGroup(s, q) ==
    LET ks == {k \in 0..(Len(s) + 1 - q) :
                  /\ \A j \in q..(q + k - 1) : s[j] # "\n"
                  /\ HasAt(s, q + k, LitAmpVEq)
                  /\ IdRun(s, q + k + Len(LitAmpVEq)) >= 1}
    IN  IF q > Len(s) + 1 \/ ks = {} THEN NoMatch
        ELSE GroupAt(s, q + Min(ks) + Len(LitAmpVEq))

\* the pattern's literal and group, the optional groups being matched up to p
MatchFrom(pat, s, p) ==
    IF ~HasAt(s, p, pat.lit) THEN NoMatch
    ELSE IF pat.lazy THEN LazyThenGroup(s, p + Len(pat.lit))
    ELSE GroupAt(s, p + Len(pat.lit))

\* re.match(pattern, url): the group 'id' of the first alternative that matches
re_match(pat, s) ==
    LET ps == AfterOptionals(s)
        ok == {i \in 1..Len(ps) : MatchFrom(pat, s, ps[i]) # NoMatch}
    IN  IF ok = {} THEN NoMatch ELSE MatchFrom(pat, s, ps[Min(ok)])

-----------------------------------------------------------------------------
(* urllib.parse.urlparse and parse_qs, as far as extract_video_id uses     *)
(* them: scheme, netloc, hostname, path and query.  Inputs hold no         *)
(* whitespace, '#', ';', '%' or '+', so stripping, fragments, params and   *)
(* unquoting do nothing.                                                   *)

SchemeChars == {LowerCase[i] : i \in 1..26} \cup {UpperCase[i] : i \in 1..26}
               \cup Digits \cup {"+", "-", "."}

\* the index of the ':' ending a scheme, 0 when the URL has none
SchemeEnd(s) ==
    LET i == Find(s, ":", 1)
    IN  IF i > 1 /\ IsAlpha(s[1]) /\ \A j \in 1..(i - 1) : s[j] \in SchemeChars
        THEN i ELSE 0

\* _splitnetloc(url, 2): the end of the netloc, before the first of / ? #
NetlocEnd(s) ==
    LET ds == {i \in 3..Len(s) : s[i] \in {"/", "?", "#"}}
    IN  IF ds = {} THEN Len(s) ELSE Min(ds) - 1

\* _hostinfo: after the last '@', up to the first ':' (or between brackets);
\* lowered, and None when empty
Hostname(netloc) ==
    LET ats  == {i \in 1..Len(netloc) : netloc[i] = "@"}
        hi   == IF ats = {} THEN netloc
                ELSE From(netloc, (CHOOSE i \in ats : \A j \in ats : j <= i) + 1)
        br   == Find(hi, "[", 1)
        inbr == From(hi, br + 1)
        cl   == Find(inbr, "]", 1)
        co   == Find(hi, ":", 1)
        host == IF br > 0
                THEN (IF cl = 0 THEN inbr ELSE Upto(inbr, cl - 1))
                ELSE (IF co = 0 THEN hi ELSE Upto(hi, co - 1))
    IN  IF host = <<>> THEN None ELSE Str(Lower(host))

urlparse(s) ==
    LET se     == SchemeEnd(s)
        rest   == From(s, se + 1)
        hasNet == StartsWith(rest, <<"/", "/">>)
        netloc == IF hasNet THEN SubSeq(rest, 3, NetlocEnd(rest)) ELSE <<>>
        after  == IF hasNet THEN From(rest, NetlocEnd(rest) + 1) ELSE rest
        q      == Find(after, "?", 1)
    IN  IF (Contains(netloc, "[") /\ ~Contains(netloc, "]"))
           \/ (Contains(netloc, "]") /\ ~Contains(netloc, "["))
        THEN Raised("ValueError")
        ELSE [kind     |-> "parsed",
              hostname |-> Hostname(netloc),
              path     |-> IF q = 0 THEN after ELSE Upto(after, q - 1),
              query    |-> IF q = 0 THEN <<>> ELSE From(after, q + 1)]

\* parse_qs(query).get('v', [None])[0]: the first non-blank value named v
FirstV(query) ==
    LET pairs == Split(query, "&")
        name(p)  == Upto(p, Find(p, "=", 1) - 1)
        value(p) == From(p, Find(p, "=", 1) + 1)
        vs == {i \in 1..Len(pairs) :
                  /\ Find(pairs[i], "=", 1) > 0
                  /\ value(pairs[i]) # <<>>
                  /\ name(pairs[i]) = <<"v">>}
    IN  IF vs = {} THEN None ELSE Str(value(pairs[Min(vs)]))

\* the urlparse fallback of extract_video_id
Fallback(s) ==
    LET p == urlparse(s)
    IN  IF p.kind = "raise" THEN p
        ELSE IF p.hostname \in {Str(LitWww \o LitYoutubeCom), Str(LitYoutubeCom)}
        THEN IF p.path = LitWatch THEN FirstV(p.query)
             ELSE IF StartsWith(p.path, LitEmbed) \/ StartsWith(p.path, LitV)
             THEN Str(Split(p.path, "/")[3])
             ELSE None
        ELSE None

\* the loop over the patterns from index i: the first match returns
RECURSIVE FirstPattern(_, _)
FirstPattern(s, i) ==
    IF i > Len(regex_patterns) THEN NoMatch
    ELSE IF re_match(regex_patterns[i], s) # NoMatch
    THEN re_match(regex_patterns[i], s)
    ELSE FirstPattern(s, i + 1)

extract_video_id(s) ==
    IF FirstPattern(s, 1) # NoMatch THEN FirstPattern(s, 1) ELSE Fallback(s)

-----------------------------------------------------------------------------
(* Paths: os.path.join('audios', f"{video_id}.mp3"), POSIX rules. *)

LitAudios == <<"a","u","d","i","o","s">>
LitMp3 == <<".","m","p","3">>

\* os.path.join(a, b): an absolute b discards a
PathJoin(a, b) ==
    IF StartsWith(b, <<"/">>) THEN b
    ELSE IF a = <<>> \/ a[Len(a)] = "/" THEN a \o b
    ELSE a \o <<"/">> \o b

\* audio_filename = f"{video_id}.mp3"
\* (faulty variant: the default filename of download_audio, 'audio.mp3')
mutAudioFilenameDefault(id) == <<"a","u","d","i","o">> \o LitMp3
AudioFilename(id) == id \o LitMp3

\* audio_path = os.path.join('audios', audio_filename)
AudioPath(id) == PathJoin(LitAudios, AudioFilename(id))

-----------------------------------------------------------------------------
(* Inputs of the resolver.  A shaped URL is built from one of the five     *)
(* recognized shapes around an intended identifier; a free-form URL is a   *)
(* prefix, a path head and a tail of atoms.                                *)

Schemes == {<<>>, LitHttp \o LitColonSlashSlash,
            LitHttp \o <<"s">> \o LitColonSlashSlash}
Wwws == {<<>>, LitWww}
Shapes == 1..5
IdChars == {"a", "b", "-"}
Suffixes == {<<>>, <<"&","v","=","b">>, <<"/","b">>, <<"?","b">>, <<"&","b">>}
\* what precedes &v= in the query of shape 5: v is not the first parameter,
\* or its first occurrence has no value
Pres == {<<>>, <<"a","=","b">>, <<"v","=">>, <<"a","=","/","b">>,
         <<"a","=","b","&","v","=">>}

StringsUpTo(chars, n) == UNION {[1..k -> chars] : k \in 0..n}

Ids == StringsUpTo(IdChars, MaxIdLen) \ {<<>>}

ShapeHost(shape) == IF shape = 1 THEN LitYoutuBe ELSE LitYoutubeCom

ShapePath(shape, pre) ==
    CASE shape = 1 -> <<"/">>
      [] shape = 2 -> LitEmbed
      [] shape = 3 -> LitV
      [] shape = 4 -> LitWatchQ \o LitVEq
      [] shape = 5 -> LitWatchQ \o pre \o LitAmpVEq

ShapedUrl(scheme, www, shape, pre, id, suffix) ==
    scheme \o www \o ShapeHost(shape) \o ShapePath(shape, pre) \o id \o suffix

LitHttps == LitHttp \o <<"s">> \o LitColonSlashSlash
LitExampleCom == <<"e","x","a","m","p","l","e",".","c","o","m">>

\* prefix |-> the host the prefix names
Prefixes ==
    { [text |-> <<>>, host |-> <<>>],
      [text |-> LitYoutuBe, host |-> LitYoutuBe],
      [text |-> LitHttps \o LitYoutuBe, host |-> LitYoutuBe],
      [text |-> LitHttps \o LitWww \o LitYoutuBe, host |-> LitWww \o LitYoutuBe],
      [text |-> LitYoutubeCom, host |-> LitYoutubeCom],
      [text |-> LitHttps \o LitYoutubeCom, host |-> LitYoutubeCom],
      [text |-> LitHttps \o LitWww \o LitYoutubeCom, host |-> LitWww \o LitYoutubeCom],
      [text |-> <<"/","/">> \o LitYoutubeCom, host |-> LitYoutubeCom],
      [text |-> LitHttps \o <<"Y">> \o Tail(LitYoutubeCom), host |-> LitYoutubeCom],
      [text |-> LitHttps \o <<"u","@">> \o LitYoutubeCom, host |-> LitYoutubeCom],
      [text |-> LitHttps \o <<"m",".">> \o LitYoutubeCom,
       host |-> <<"m",".">> \o LitYoutubeCom],
      [text |-> LitHttps \o LitExampleCom, host |-> LitExampleCom],
      [text |-> LitHttp \o LitColonSlashSlash \o <<"[">>, host |-> <<"[">>] }

Heads == {<<>>, <<"/">>, LitWatch, LitWatchQ, LitEmbed, LitV,
          <<"/","e","m","b","e","d">>}

Atoms == {<<"a">>, LitVEq, <<"&">>, <<"/">>, <<"?">>}

Tails == StringsUpTo(Atoms, MaxTail)

InitResolver ==
    /\ \/ \E scheme \in Schemes, www \in Wwws, shape \in Shapes, pre \in Pres,
             id \in Ids, suffix \in Suffixes :
             /\ shape # 5 => pre = <<>>
             /\ url = ShapedUrl(scheme, www, shape, pre, id, suffix)
             /\ origin = [kind |-> "shaped", shape |-> shape, id |-> id,
                          host |-> www \o ShapeHost(shape)]
       \/ \E prefix \in Prefixes, head \in Heads, tail \in Tails :
             /\ url = prefix.text \o head \o Flatten(tail)
             /\ origin = [kind |-> "free", shape |-> 0, id |-> <<>>,
                          host |-> prefix.host]
    /\ resolved = Pending
    /\ treq = <<>>
    /\ tres = Pending
    /\ sess = <<>>
    /\ dirs = {}
    /\ files = <<>>

\* one call of extract_video_id(url)
Resolve ==
    /\ resolved = Pending
    /\ resolved' = extract_video_id(url)
    /\ UNCHANGED <<url, origin, treq, tres, sess, dirs, files>>

NextResolver == Resolve

SpecResolver == InitResolver /\ [][NextResolver]_vars

-----------------------------------------------------------------------------
(* The file system: the directories that exist, and for each existing file *)
(* the run that wrote it.                                                  *)

NoFiles == [p \in {} |-> <<0, 0>>]

\* a file left by a run that ended before the ones modelled
StaleTag == <<0, 0>>

WriteFile(fs, path, tag) ==
    [p \in (DOMAIN fs) \cup {path} |-> IF p = path THEN tag ELSE fs[p]]

\* os.path.exists(audio_path)
\* (faulty variant: the check left out)
mutExistsAlways(fs, path) == TRUE
os_path_exists(fs, path) == path \in DOMAIN fs

-----------------------------------------------------------------------------
(* transcribe_audio.  Texts and messages are sequences of phrases; the     *)
(* phrase main looks for, written here without its accent, is one element. *)

ErrorMarker == <<"Error durante la transcripcion">>
ErrorPrefix == ErrorMarker \o <<": ">>

\* what the recognition service can return as result['text']
Texts == {<<>>, <<"hola">>, ErrorMarker, <<"hola">> \o ErrorMarker}

\* the exceptions the recognition service raises: a failed model load, an audio
\* file that cannot be read, a parameter it rejects
Exc(cls, msg) == [kind |-> "raise", exc |-> cls, msg |-> <<msg>>]
LoadOutcomes == {[kind |-> "ok"], Exc("RuntimeError", "model load failed")}
TranscribeRaises == {Exc("RuntimeError", "decoding failed"),
                     Exc("ValueError", "unsupported language")}
TranscribeOutcomes == {Str(t) : t \in Texts} \cup TranscribeRaises
AudioUnreadable == Exc("RuntimeError", "failed to load audio")

\* except Exception: the classes the handler catches
\* (faulty variant: except RuntimeError)
mutCatchesRuntimeError(cls) == cls = "RuntimeError"
Catches(cls) == cls \in {"Exception", "RuntimeError", "ValueError", "OSError",
                         "KeyError"}

\* what the body of the try block does: load_model, then model.transcribe on
\* the file (unreadable when it does not exist), then result['text']
TryBody(exists, load, tr) ==
    IF load.kind = "raise" THEN load
    ELSE IF ~exists THEN AudioUnreadable
    ELSE tr

\* transcribe_audio(audio_path, model_name, language), given what the service
\* does: the text, the error string, or the exception that leaves the function
transcribe_audio(exists, load, tr) ==
    LET r == TryBody(exists, load, tr)
    IN  IF r.kind = "str" THEN r
        ELSE IF Catches(r.exc) THEN Str(ErrorPrefix \o r.msg)
        ELSE r

\* main's test of the result: "Error durante la transcripcion" in transcription
IsTranscriptionError(text) == IsSubstring(ErrorMarker, text)

PathsT == {AudioPath(<<"a">>), AudioPath(<<"b">>)}
ModelNames == {"tiny", "large"}
Languages == {"es", "en"}

InitTranscriber ==
    /\ url = <<>>
    /\ origin = <<>>
    /\ resolved = Pending
    /\ \E path \in PathsT, m \in ModelNames, l \in Languages,
          load \in LoadOutcomes, tr \in TranscribeOutcomes :
          treq = [audio_path |-> path, model_name |-> m, language |-> l,
                  load |-> load, tr |-> tr]
    /\ tres = Pending
    /\ sess = <<>>
    /\ dirs \in {{}, {LitAudios}}
    /\ files \in {NoFiles} \cup
                 (IF LitAudios \in dirs
                  THEN {WriteFile(NoFiles, AudioPath(<<"a">>), StaleTag)}
                  ELSE {})

\* one call of transcribe_audio(treq.audio_path, treq.model_name, treq.language)
CallTranscribe ==
    /\ tres = Pending
    /\ tres' = transcribe_audio(os_path_exists(files, treq.audio_path),
                                treq.load, treq.tr)
    /\ UNCHANGED <<url, origin, resolved, treq, sess, dirs, files>>

NextTranscriber == CallTranscribe

SpecTranscriber == InitTranscriber /\ [][NextTranscriber]_vars

-----------------------------------------------------------------------------
(* main: one run per press of "Transcribir", in each browser session.      *)
(* A run is cut at its calls of the file system and of the two services,   *)
(* where the runs of other sessions can interleave.                        *)

Sessions == {1, 2}

Terminal == {"Done", "Failed", "Warned", "Crashed"}

\* what the download service can do with one call of ydl.download
DownloadOutcomes == {"written", "nothing", "raised"}

UrlA == LitHttps \o LitYoutuBe \o <<"/", "a">>
UrlB == LitHttps \o LitYoutuBe \o <<"/", "b">>
UrlOther == LitHttps \o LitExampleCom \o <<"/">>
UrlEmptyId == LitHttps \o LitYoutubeCom \o LitEmbed
UrlBracket == LitHttp \o LitColonSlashSlash \o <<"[">>

\* the strings typed into the URL field
SubmittedUrls == {<<>>, UrlA, UrlB, UrlOther, UrlEmptyId, UrlBracket}

NoService == [kind |-> "none"]

IdleSession ==
    [pc |-> "Idle", run |-> 0, url |-> <<>>, res |-> Pending, shown |-> {},
     text |-> <<>>, touched |-> FALSE, dl |-> "none", had0 |-> FALSE,
     checked |-> FALSE, present |-> FALSE, seen |-> StaleTag,
     trcalled |-> FALSE, load |-> NoService, tr |-> NoService]

RunTag(s) == <<s, sess[s].run>>

VideoId(s) == sess[s].res.val

\* if st.button("Transcribir"): if youtube_url: ... else: st.warning(...)
Submit(s, u, limit) ==
    /\ sess[s].pc \in {"Idle"} \cup Terminal
    /\ sess[s].run < limit
    /\ sess' = [sess EXCEPT ![s] =
                  [IdleSession EXCEPT
                     !.run = sess[s].run + 1,
                     !.url = u,
                     !.pc = IF u # <<>> THEN "Resolving" ELSE "Warned",
                     !.shown = IF u # <<>> THEN {} ELSE {"warn_empty_url"}]]
    /\ UNCHANGED <<url, origin, resolved, treq, tres, dirs, files>>

\* video_id = extract_video_id(youtube_url); if video_id: ... else: st.error(...)
ResolveId(s) ==
    /\ sess[s].pc = "Resolving"
    /\ LET r == extract_video_id(sess[s].url)
       IN  sess' = [sess EXCEPT
                 ![s].res = r,
                 ![s].pc = IF r.kind = "raise" THEN "Crashed"
                           ELSE IF Truthy(r) THEN "Acquiring"
                           ELSE "Failed",
                 ![s].shown = IF r.kind = "raise" THEN @
                              ELSE IF Truthy(r) THEN @ \cup {"id", "video"}
                              ELSE @ \cup {"err_id"},
                 ![s].had0 = Truthy(r) /\ AudioPath(r.val) \in DOMAIN files]
    /\ UNCHANGED <<url, origin, resolved, treq, tres, dirs, files>>

\* download_audio: os.makedirs(output_dir, exist_ok=True)
MakeDirs(s) ==
    /\ sess[s].pc = "Acquiring"
    /\ dirs' = dirs \cup {LitAudios}
    /\ sess' = [sess EXCEPT ![s].pc = "Downloading", ![s].touched = TRUE]
    /\ UNCHANGED <<url, origin, resolved, treq, tres, files>>

\* download_audio: ydl.download([video_url]) with outtmpl
\* os.path.join(output_dir, filename); an exception it raises leaves
\* download_audio and main
Download(s, outcome) ==
    /\ sess[s].pc = "Downloading"
    /\ files' = IF outcome = "written"
                THEN WriteFile(files, PathJoin(LitAudios, AudioFilename(VideoId(s))),
                               RunTag(s))
                ELSE files
    /\ sess' = [sess EXCEPT
                  ![s].dl = outcome,
                  ![s].pc = IF outcome = "raised" THEN "Crashed" ELSE "Checking"]
    /\ UNCHANGED <<url, origin, resolved, treq, tres, dirs>>

\* if os.path.exists(audio_path): st.success(...) else: st.error(...)
ExistsCheck(s) ==
    /\ sess[s].pc = "Checking"
    /\ LET path == AudioPath(VideoId(s))
           there == path \in DOMAIN files
       IN  sess' = [sess EXCEPT
                 ![s].checked = TRUE,
                 ![s].present = there,
                 ![s].seen = IF there THEN files[path] ELSE StaleTag,
                 ![s].pc = IF os_path_exists(files, path) THEN "Transcribing"
                           ELSE "Failed",
                 ![s].shown = IF os_path_exists(files, path)
                              THEN @ \cup {"downloaded"}
                              ELSE @ \cup {"err_download"}]
    /\ UNCHANGED <<url, origin, resolved, treq, tres, dirs, files>>

\* transcription = transcribe_audio(...); then the test for the error phrase:
\* st.write and st.download_button, or st.error
Transcribe(s, load, tr) ==
    /\ sess[s].pc = "Transcribing"
    /\ LET path == AudioPath(VideoId(s))
           there == path \in DOMAIN files
           r == transcribe_audio(os_path_exists(files, path), load, tr)
       IN  sess' = [sess EXCEPT
                 ![s].trcalled = TRUE,
                 ![s].load = load,
                 ![s].tr = IF there THEN tr ELSE AudioUnreadable,
                 ![s].seen = IF there THEN files[path] ELSE StaleTag,
                 ![s].text = IF r.kind = "str" THEN r.val ELSE <<>>,
                 ![s].pc = IF r.kind = "raise" THEN "Crashed"
                           ELSE IF ~IsTranscriptionError(r.val) THEN "Done"
                           ELSE "Failed",
                 ![s].shown = IF r.kind = "raise" THEN @
                              ELSE IF ~IsTranscriptionError(r.val)
                              THEN @ \cup {"transcription", "download_button"}
                              ELSE @ \cup {"err_transcription"}]
    /\ UNCHANGED <<url, origin, resolved, treq, tres, dirs, files>>

RunStep(s, limit) ==
    \/ \E u \in SubmittedUrls : Submit(s, u, limit)
    \/ ResolveId(s)
    \/ MakeDirs(s)
    \/ \E o \in DownloadOutcomes : Download(s, o)
    \/ ExistsCheck(s)
    \/ \E load \in LoadOutcomes, tr \in TranscribeOutcomes : Transcribe(s, load, tr)

InitFresh ==
    /\ url = <<>>
    /\ origin = <<>>
    /\ resolved = Pending
    /\ treq = <<>>
    /\ tres = Pending
    /\ sess = [s \in Sessions |-> IdleSession]
    /\ dirs = {}
    /\ files = NoFiles

\* the directory and files that earlier runs can have left
InitAfterEarlierRuns ==
    /\ url = <<>>
    /\ origin = <<>>
    /\ resolved = Pending
    /\ treq = <<>>
    /\ tres = Pending
    /\ sess = [s \in Sessions |-> IdleSession]
    /\ dirs \in {{}, {LitAudios}}
    /\ \E left \in SUBSET {AudioPath(<<"a">>), AudioPath(<<"b">>)} :
          /\ left # {} => LitAudios \in dirs
          /\ files = [p \in left |-> StaleTag]

\* the sessions of one server process, each pressing the button again and again
Next == \E s \in Sessions : RunStep(s, MaxRuns)

Spec == InitFresh /\ [][Next]_vars

\* one session, run after run
NextSequential == RunStep(1, MaxRuns)

SpecSequential == InitFresh /\ [][NextSequential]_vars

\* two sessions, one run each, interleaved
NextConcurrent == \E s \in Sessions : RunStep(s, 1)

SpecConcurrent == InitAfterEarlierRuns /\ [][NextConcurrent]_vars

-----------------------------------------------------------------------------
(* main run alone: the same steps in program order on a file system no     *)
(* other run touches, given the URL, whether a file was at the audio path  *)
(* before, and what the two services do.                                   *)

SoloRun(u, had0, dl, load, tr, tag) ==
    LET r    == extract_video_id(u)
        path == AudioPath(r.val)
        fs0  == IF had0 THEN WriteFile(NoFiles, path, StaleTag) ELSE NoFiles
        fs1  == IF dl = "written"
                THEN WriteFile(fs0, PathJoin(LitAudios, AudioFilename(r.val)), tag)
                ELSE fs0
        t    == transcribe_audio(os_path_exists(fs1, path), load, tr)
    IN  IF u = <<>> THEN [pc |-> "Warned", text |-> <<>>, shown |-> {"warn_empty_url"}]
        ELSE IF r.kind = "raise" THEN [pc |-> "Crashed", text |-> <<>>, shown |-> {}]
        ELSE IF ~Truthy(r) THEN [pc |-> "Failed", text |-> <<>>, shown |-> {"err_id"}]
        ELSE IF dl = "raised"
        THEN [pc |-> "Crashed", text |-> <<>>, shown |-> {"id", "video"}]
        ELSE IF ~os_path_exists(fs1, path)
        THEN [pc |-> "Failed", text |-> <<>>,
              shown |-> {"id", "video", "err_download"}]
        ELSE IF t.kind = "raise"
        THEN [pc |-> "Crashed", text |-> <<>>,
              shown |-> {"id", "video", "downloaded"}]
        ELSE IF ~IsTranscriptionError(t.val)
        THEN [pc |-> "Done", text |-> t.val,
              shown |-> {"id", "video", "downloaded", "transcription",
                         "download_button"}]
        ELSE [pc |-> "Failed", text |-> t.val,
              shown |-> {"id", "video", "downloaded", "err_transcription"}]

Outcome(s) == [pc |-> sess[s].pc, text |-> sess[s].text, shown |-> sess[s].shown]

-----------------------------------------------------------------------------
(* Properties of the orchestrator, under Spec: two sessions, run after run. *)

\* C1: transcribe_audio is called only after the existence check made after
\* download_audio returned found audios/<id>.mp3; when the check finds the file
\* absent the run is Failed with the download-failed message and transcribe_audio
\* is not called in it.
C1_TranscribeOnlyAfterFileConfirmed ==
    \A s \in Sessions :
        /\ sess[s].pc = "Transcribing" \/ sess[s].trcalled
              => sess[s].checked /\ sess[s].present
        /\ sess[s].checked /\ ~sess[s].present
              => /\ sess[s].pc = "Failed"
                 /\ "err_download" \in sess[s].shown
                 /\ ~sess[s].trcalled

\* one session has transcribed a file it found, the other's download returned
\* without a file and its run failed at the check
C1_Witness ==
    \E s, t \in Sessions :
        /\ sess[s].trcalled /\ sess[s].present
        /\ sess[t].dl = "nothing" /\ sess[t].checked /\ ~sess[t].present
        /\ sess[t].pc = "Failed"

\* C2: every stage failure is caught and shown: whatever the external services
\* do, a run started with a non-empty URL never leaves main with an exception,
\* and once over it is Done or Failed with an error message shown.  Stated for
\* the runs in which extract_video_id returned, the ones that reach the services.
C2_EveryFailureShownAsMessage ==
    \A s \in Sessions :
        sess[s].url # <<>> /\ sess[s].res.kind # "raise" =>
            /\ sess[s].pc # "Crashed"
            /\ sess[s].pc \in Terminal =>
                  \/ sess[s].pc = "Done"
                  \/ /\ sess[s].pc = "Failed"
                     /\ sess[s].shown \cap {"err_id", "err_download",
                                            "err_transcription"} # {}

\* C3: after transcribe_audio the run is Failed exactly when the recognition
\* service raised; for every text the service returned the run is Done, shows
\* that text and offers it for download.
C3_FailedExactlyWhenServiceRaised ==
    \A s \in Sessions :
        sess[s].trcalled =>
            LET raised == sess[s].load.kind = "raise" \/ sess[s].tr.kind = "raise"
            IN  /\ sess[s].pc = "Failed" <=> raised
                /\ ~raised => /\ sess[s].pc = "Done"
                              /\ sess[s].text = sess[s].tr.val
                              /\ {"transcription", "download_button"}
                                    \subseteq sess[s].shown

\* C4: when extract_video_id yields no identifier for the submitted URL the run
\* halts at Resolving: the identifier-not-extractable message is shown, neither
\* download_audio nor transcribe_audio is called and the run changes nothing in
\* the file system.
C4_NoIdentifierHaltsAtResolving ==
    \A s \in Sessions :
        sess[s].res # Pending /\ ~Truthy(sess[s].res) =>
            /\ sess[s].pc = "Failed"
            /\ "err_id" \in sess[s].shown
            /\ ~sess[s].touched
            /\ sess[s].dl = "none"
            /\ ~sess[s].trcalled

\* the part of C4 about the services and the file system alone, which also
\* covers the runs in which extract_video_id raises
C4_NoIdentifierTouchesNothing ==
    \A s \in Sessions :
        sess[s].res # Pending /\ ~Truthy(sess[s].res) =>
            /\ sess[s].pc \in {"Failed", "Crashed"}
            /\ ~sess[s].touched
            /\ sess[s].dl = "none"
            /\ ~sess[s].trcalled

-----------------------------------------------------------------------------
(* Properties of transcribe_audio, under SpecTranscriber. *)

\* C5: transcribe_audio returns a value in every case; when model loading or
\* transcription fails (a nonexistent audio file included) the value is the
\* failure string, which main recognizes and which carries the exception's
\* message.
C5_TranscribeAudioAlwaysReturns ==
    tres # Pending =>
        LET missing == treq.audio_path \notin DOMAIN files
            failure == IF treq.load.kind = "raise" THEN treq.load
                       ELSE IF missing THEN AudioUnreadable
                       ELSE treq.tr
        IN  /\ tres.kind = "str"
            /\ failure.kind = "raise" =>
                  /\ IsTranscriptionError(tres.val)
                  /\ IsSubstring(failure.msg, tres.val)

\* the call was made on a path with no file, the model having loaded, and came
\* back as a failure string
C5_Witness ==
    /\ tres.kind = "str"
    /\ IsTranscriptionError(tres.val)
    /\ treq.load.kind = "ok"
    /\ treq.audio_path \notin DOMAIN files

-----------------------------------------------------------------------------
(* Properties of extract_video_id, under SpecResolver. *)

\* C6: extract_video_id never raises for any input string: it returns an
\* identifier or, when no rule yields one, None.
C6_NeverRaises ==
    resolved.kind \in {"pending", "str", "None"}

\* C6, its last clause: for a URL whose host is not youtu.be, youtube.com or
\* www.youtube.com the result is None.
C6_OtherHostsYieldNone ==
    /\ resolved # Pending
    /\ origin.host \notin {LitYoutuBe, LitYoutubeCom, LitWww \o LitYoutubeCom}
    => resolved = None

\* C7: for a URL in one of the five recognized shapes, with or without the
\* scheme and the www prefix, extract_video_id returns exactly the identifier
\* the URL was built around, the first pattern that matches deciding.
C7_ShapedUrlYieldsItsId ==
    origin.kind = "shaped" /\ resolved # Pending => resolved = Str(origin.id)

\* a watch URL with v first and a second &v= after the identifier: patterns 4
\* and 5 both match, and the result is the one of pattern 4
C7_Witness ==
    /\ origin.kind = "shaped"
    /\ origin.shape = 4
    /\ IsSubstring(LitAmpVEq, url)
    /\ resolved = Str(origin.id)

\* C10: every identifier extract_video_id returns is a non-empty string without
\* '/', '?' and '&', so the audio path built from it is the file <id>.mp3
\* directly inside 'audios'.
C10_IdentifierIsSafeFileName ==
    resolved.kind = "str" =>
        /\ resolved.val # <<>>
        /\ \A i \in 1..Len(resolved.val) : resolved.val[i] \notin {"/", "?", "&"}
        /\ AudioPath(resolved.val) = LitAudios \o <<"/">> \o resolved.val \o LitMp3

-----------------------------------------------------------------------------
(* Concurrent runs, under SpecConcurrent. *)

-----------------------------------------------------------------------------
(* Runs in sequence, under SpecSequential. *)

\* C9: no cross-run caching: a run that reaches Transcribing transcribes the
\* file its own download_audio call wrote, never a file an earlier run left at
\* audios/<id>.mp3.
C9_TranscribesOnlyItsOwnDownload ==
    \A s \in Sessions :
        sess[s].pc = "Transcribing" \/ sess[s].trcalled => sess[s].seen = RunTag(s)

=============================================================================
